---- MODULE Spec2Model ----
(***************************************************************************)
(* News filtering job of src/main.py: init_db (prune), get_naver_news,     *)
(* the keyword/duplicate pre-filter, analyze_batch_filtered (one batched   *)
(* classification request with retry on rate limit), the id-keyed          *)
(* post-filter, the inserts and their single commit, and the notification. *)
(*                                                                         *)
(* Text is a sequence of characters (one-character strings); a Korean      *)
(* syllable is written as its romanisation and counts as one character.    *)
(* A date 'YYYY-MM-DD' is the number of its day: the format is fixed       *)
(* width, so SQLite's text comparison of two dates is their order.         *)
(***************************************************************************)
EXTENDS Integers, Sequences, FiniteSets, TLC

\* ---------------------------------------------------------------- bounds
MaxItems == 2       \* items one search response carries
MaxVerdicts == 2    \* elements of one classifier response
MaxRuns == 2        \* runs of the job

\* ------------------------------------------------------ program constants
MaxAttempts == 3    \* range(3)
Cooldown == 60      \* time.sleep(60)
HorizonDays == 3    \* timedelta(days=3)

\* the last day a run starts on, the first run being on day 0: a row of day 0
\* is then past the horizon
MaxDay == HorizonDays + 1
RateLimitCode == 429

\* ------------------------------------------------------------------ text
\* s[k:].startswith(t)
MatchesAt(s, k, t) ==
    /\ k + Len(t) - 1 <= Len(s)
    /\ \A i \in 1..Len(t) : s[k + i - 1] = t[i]

RECURSIVE Replace(_, _, _)
\* str.replace(old, new): leftmost, non-overlapping, one pass
Replace(s, old, new) ==
    IF Len(s) < Len(old) THEN s
    ELSE IF MatchesAt(s, 1, old)
         THEN new \o Replace(SubSeq(s, Len(old) + 1, Len(s)), old, new)
         ELSE <<Head(s)>> \o Replace(Tail(s), old, new)

\* `kw in s` for strings
Contains(s, kw) == \E k \in 1..(Len(s) - Len(kw) + 1) : MatchesAt(s, k, kw)

BoldOpen == <<"<", "b", ">">>
BoldClose == <<"<", "/", "b", ">">>
QuotEntity == <<"&", "q", "u", "o", "t", ";">>

\* .replace('<b>', '').replace('</b>', '').replace('&quot;', '"')
CleanText(s) ==
    Replace(Replace(Replace(s, BoldOpen, <<>>), BoldClose, <<>>), QuotEntity, <<"\"">>)

EXCLUDE_KEYWORDS ==
    { <<"mok", "pyo", "ju", "ga">>,      \* target price
      <<"mok", "pyo", "ga">>,
      <<"tu", "ja", "ui", "gyeon">>,     \* investment opinion
      <<"sang", "hyang">>,
      <<"ha", "hyang">>,
      <<"yu", "ji">>,
      <<"mae", "su">>,
      <<"mae", "do">>,
      <<"B", "u", "y">>,
      <<"H", "o", "l", "d">>,
      <<"T", "a", "r", "g", "e", "t", " ", "P", "r", "i", "c", "e">>,
      <<"teuk", "jing", "ju">> }

\* any(keyword in title for keyword in EXCLUDE_KEYWORDS)
Denylisted(title) == \E kw \in EXCLUDE_KEYWORDS : Contains(title, kw)

\* ------------------------------------------------- search collaborator
\* Raw items as the search API returns them: title and description carry
\* emphasis markup and HTML entities.
ItemA == [title |-> <<"<", "b", ">", "A", "<", "/", "b", ">">>,
          description |-> <<"<", "b", ">", "d">>, link |-> "linkA", pubDate |-> "p1"]
\* the same article without the markup: its cleaned title is that of ItemA
ItemA2 == [title |-> <<"A">>,
           description |-> <<"d">>, link |-> "linkA", pubDate |-> "p1"]
\* cleaned title "B"
ItemB == [title |-> <<"&", "q", "u", "o", "t", ";", "B">>,
          description |-> <<"d">>, link |-> "linkB", pubDate |-> "p1"]
\* the keyword 'mok pyo ga' appears only once the markup is stripped
ItemD == [title |-> <<"mok", "pyo", "<", "b", ">", "ga", "<", "/", "b", ">">>,
          description |-> <<"d">>, link |-> "linkD", pubDate |-> "p2"]

RawItems == {ItemA, ItemA2, ItemB, ItemD}

\* res.json()['items']: at most MaxItems items, no item twice in one response
ItemLists ==
    { s \in UNION { [1..n -> RawItems] : n \in 0..MaxItems } :
        \A i, j \in DOMAIN s : i # j => s[i] # s[j] }

\* --------------------------------------------------- classifier collaborator
NoId == -1                     \* the key 'id' is absent
AbsentKey == "#absent"         \* the key is absent
AbsentText == <<"#absent">>
NullText == <<"#null">>        \* JSON null
Positive == <<"geung", "jeong">>
Negative == <<"bu", "jeong">>
Neutral == <<"jung", "rip">>   \* the default of res.get('sentiment', ...)
NoSummary == "NoSummary"       \* the default of res.get('summary', ...)

\* a JSON object of the response list
Verdict(id, status, sentiment, summary) ==
    [id |-> id, status |-> status, sentiment |-> sentiment, summary |-> summary]

VerdictPool ==
    { Verdict(0, "KEEP", Positive, "s1"),
      Verdict(1, "KEEP", AbsentText, AbsentKey),
      Verdict(0, "PASS", AbsentText, AbsentKey),
      Verdict(1, "KEEP", NullText, "s1"),
      Verdict(0, AbsentKey, Positive, "s1"),
      Verdict(NoId, "KEEP", Positive, "s1") }

\* json.loads(response.text) when it parses: a list of at most MaxVerdicts
\* objects (none twice), a JSON object, or a scalar (null, a number)
JsonList(elems) == [kind |-> "list", elems |-> elems]
JsonDict == [kind |-> "dict", elems |-> <<>>]
JsonScalar == [kind |-> "scalar", elems |-> <<>>]
VerdictLists ==
    { s \in UNION { [1..n -> VerdictPool] : n \in 0..MaxVerdicts } :
        \A i, j \in DOMAIN s : i # j => s[i] # s[j] }
ParsedValues == { JsonList(e) : e \in VerdictLists } \cup {JsonDict, JsonScalar}

\* e.code of a ClientError
ClientErrorCodes == {RateLimitCode, 400}

\* ------------------------------------------------------------------ store
\* mutant of Prune: the comparison is <= where the statement has <
PruneThrough(store, now) == { r \in store : ~(r.created_at <= now - HorizonDays) }

\* mutant of Prune: the DELETE has not taken effect when the run reads the store
PruneNever(store, now) == store

\* mutant of Prune: the horizon is forgotten
PruneBeforeToday(store, now) == { r \in store : ~(r.created_at < now) }

\* DELETE FROM news WHERE created_at < three_days_ago
Prune(store, now) == { r \in store : ~(r.created_at < now - HorizonDays) }

\* SELECT title FROM news WHERE title=?  (fetchone() is truthy)
TitleExists(store, title) == \E r \in store : r.title = title

\* mutant of InsertDurable: every INSERT is committed on its own
InsertAutocommit(store, row) == store \cup {row}

\* the file after an INSERT that succeeded: the row is in the transaction the
\* INSERT opened implicitly, the file is as it was
InsertDurable(store, row) == store

\* title TEXT UNIQUE: the INSERT raises sqlite3.IntegrityError on a title the
\* connection already sees
InsertRaises(store, title) == TitleExists(store, title)

RECURSIVE SeqToSet(_)
SeqToSet(s) == IF s = <<>> THEN {} ELSE {Head(s)} \cup SeqToSet(Tail(s))

\* -------------------------------------------------------------- pre-filter
\* mutant of IsDuplicate: the store is not asked
IsDuplicateNever(store, title) == FALSE

\* the SELECT of line 157
IsDuplicate(store, title) == TitleExists(store, title)

\* mutant of IsExcluded: only the first keyword is tested
IsExcludedFirstKeyword(title) == Contains(title, <<"mok", "pyo", "ju", "ga">>)

\* the keyword test of line 162
IsExcluded(title) == Denylisted(title)

NewsOf(idx, item) ==
    [id |-> idx, title |-> CleanText(item.title), link |-> item.link,
     desc |-> CleanText(item.description), pubDate |-> item.pubDate]

RECURSIVE PreFilterFrom(_, _, _)
\* the loop of lines 152-173 from the k-th item on; ids are enumerate() indexes
PreFilterFrom(its, k, store) ==
    IF k > Len(its) THEN <<>>
    ELSE LET news == NewsOf(k - 1, its[k])
             rest == PreFilterFrom(its, k + 1, store)
         IN IF IsDuplicate(store, news.title) THEN rest
            ELSE IF IsExcluded(news.title) THEN rest
            ELSE <<news>> \o rest

PreFilter(its, store) == PreFilterFrom(its, 1, store)

\* mutant of Payload: a request carries one article
PayloadOneArticle(news_list) ==
    [k \in {1} |->
        [id |-> news_list[k].id, title |-> news_list[k].title,
         description |-> news_list[k].desc]]

\* the request payload of lines 72-75
Payload(news_list) ==
    [k \in DOMAIN news_list |->
        [id |-> news_list[k].id, title |-> news_list[k].title,
         description |-> news_list[k].desc]]

\* ------------------------------------------------------------- post-filter
HasKeys(res) == res.id # NoId /\ res.status # AbsentKey

\* iterating the parsed value raises TypeError
MapRaises(parsed) == parsed.kind = "scalar"

\* mutant of ResultMapFrom: verdicts are keyed by their position
ResultMapByPosition(elems, m) ==
    [x \in { k - 1 : k \in { j \in DOMAIN elems : HasKeys(elems[j]) } }
        |-> elems[x + 1]]

RECURSIVE ResultMapFirstWins(_, _)
\* mutant of ResultMapFrom: an entry does not replace an earlier one of its id
ResultMapFirstWins(elems, m) ==
    IF elems = <<>> THEN m
    ELSE LET res == Head(elems)
         IN IF HasKeys(res) /\ res.id \notin DOMAIN m
            THEN ResultMapFirstWins(Tail(elems),
                    [x \in DOMAIN m \cup {res.id} |-> IF x = res.id THEN res ELSE m[x]])
            ELSE ResultMapFirstWins(Tail(elems), m)

RECURSIVE ResultMapFrom(_, _)
\* {res['id']: res for res in ... if 'id' in res and 'status' in res}: a later
\* entry replaces an earlier one of the same id
ResultMapFrom(elems, m) ==
    IF elems = <<>> THEN m
    ELSE LET res == Head(elems)
         IN IF HasKeys(res)
            THEN ResultMapFrom(Tail(elems),
                    [x \in DOMAIN m \cup {res.id} |-> IF x = res.id THEN res ELSE m[x]])
            ELSE ResultMapFrom(Tail(elems), m)

EmptyMap == [x \in {} |-> Verdict(NoId, AbsentKey, AbsentText, AbsentKey)]

\* a JSON object iterates over its keys, none of which holds both substrings
ResultMapOf(parsed) ==
    IF parsed.kind = "list" THEN ResultMapFrom(parsed.elems, EmptyMap) ELSE EmptyMap

\* mutant of IsKept: the status is not read
IsKeptAnyStatus(m, id) == id \in DOMAIN m

\* `not res or res.get('status') != 'KEEP'` is false
IsKept(m, id) == id \in DOMAIN m /\ m[id].status = "KEEP"

\* res.get('sentiment', default)
SentimentOf(res) == IF res.sentiment = AbsentText THEN Neutral ELSE res.sentiment

\* res.get('summary', default)
SummaryOf(res) == IF res.summary = AbsentKey THEN NoSummary ELSE res.summary

\* `"..." in sentiment` raises TypeError on None
DisplayRaises(sentiment) == sentiment = NullText

SentimentDisplay(sentiment) ==
    IF Contains(sentiment, Positive) THEN "POS"
    ELSE IF Contains(sentiment, Negative) THEN "NEG"
    ELSE "NEU"

RecordOf(news, res, today_str) ==
    [title |-> news.title, link |-> news.link, description |-> news.desc,
     pubDate |-> news.pubDate, summary |-> SummaryOf(res),
     sentiment |-> SentimentDisplay(SentimentOf(res)), created_at |-> today_str]

\* mutant of BlockOf: the block is headed by the description
BlockOfDescription(news, res) ==
    [sentiment |-> SentimentDisplay(SentimentOf(res)), title |-> news.desc,
     summary |-> SummaryOf(res), link |-> news.link]

BlockOf(news, res) ==
    [sentiment |-> SentimentDisplay(SentimentOf(res)), title |-> news.title,
     summary |-> SummaryOf(res), link |-> news.link]

\* ------------------------------------------------------------------ state
VARIABLES
    pc,               \* position of the process in main()
    db,               \* news.db as committed (durable)
    txn,              \* rows of the open transaction of main()'s connection
    connOpen,         \* main()'s connection is open
    today,            \* the day datetime.now() falls on
    runs,             \* runs started
    fetchOk,          \* the search request returned status 200 with items
    items,            \* items
    new_to_analyze,   \* new_to_analyze
    attempt,          \* attempts of the retry loop begun
    clock,            \* time units slept in this run
    calls,            \* generate_content invocations: [at, payload]
    outcomes,         \* outcome of each invocation
    returnLine,       \* the return statement analyze_batch_filtered left by
    result_map,       \* result_map
    idx,              \* position of the second loop in new_to_analyze
    final_messages,   \* final_messages
    inserted,         \* rows whose INSERT has executed in this run
    dbAtOpen,         \* db as init_db left it in this run
    outbox,           \* sendMessage requests: [blocks, delivered]
    error,            \* the exception that left main(): [type, line]
    prevKept,         \* rows the previous run committed
    response          \* SpecVerdicts: the parsed response the classifier will
                      \* give; Spec draws it within the attempt, keeps no record

vars == <<pc, db, txn, connOpen, today, runs, fetchOk, items, new_to_analyze,
          attempt, clock, calls, outcomes, returnLine, result_map, idx,
          final_messages, inserted, dbAtOpen, outbox, error, prevKept, response>>

histVars == <<dbAtOpen, error, prevKept, response>>
storeVars == <<db, txn, connOpen, today, runs, histVars>>
fetchVars == <<fetchOk, items, new_to_analyze>>
classifyVars == <<attempt, clock, calls, outcomes, returnLine, result_map>>
postVars == <<idx, final_messages, inserted, outbox>>

NoResults == JsonList(<<>>)
NoError == [type |-> "none", line |-> 0]
Raised(type, line) == [type |-> type, line |-> line]

RowsOf(ins) == { ins[k].row : k \in DOMAIN ins }
TitlesOf(rows) == { r.title : r \in rows }

Init ==
    /\ pc = "idle"
    /\ db = {}
    /\ txn = <<>>
    /\ connOpen = FALSE
    /\ today = 0
    /\ runs = 0
    /\ fetchOk = FALSE
    /\ items = <<>>
    /\ new_to_analyze = <<>>
    /\ attempt = 0
    /\ clock = 0
    /\ calls = <<>>
    /\ outcomes = <<>>
    /\ returnLine = 0
    /\ result_map = EmptyMap
    /\ idx = 1
    /\ final_messages = <<>>
    /\ inserted = <<>>
    /\ dbAtOpen = {}
    /\ outbox = <<>>
    /\ error = NoError
    /\ prevKept = {}
    /\ response = NoResults

\* what the connection of main() reads: committed rows and its own
Visible == db \cup SeqToSet(txn)

\* the days a run that follows the state may start on
NextDays == IF pc = "idle" THEN {today} ELSE today..MaxDay

\* init_db() of a new process: CREATE TABLE IF NOT EXISTS, prune, commit, close
InitDb ==
    /\ pc \in {"idle", "done", "crashed"}
    /\ runs < MaxRuns
    /\ \E now \in NextDays :
        /\ today' = now
        /\ db' = Prune(db, now)
        /\ dbAtOpen' = Prune(db, now)
    /\ runs' = runs + 1
    /\ pc' = "fetch"
    /\ txn' = <<>>
    /\ connOpen' = FALSE
    /\ fetchOk' = FALSE
    /\ items' = <<>>
    /\ new_to_analyze' = <<>>
    /\ attempt' = 0
    /\ clock' = 0
    /\ calls' = <<>>
    /\ outcomes' = <<>>
    /\ returnLine' = 0
    /\ result_map' = EmptyMap
    /\ idx' = 1
    /\ final_messages' = <<>>
    /\ inserted' = <<>>
    /\ outbox' = <<>>
    /\ error' = NoError
    /\ prevKept' = IF pc = "done" THEN RowsOf(inserted) ELSE {}
    /\ UNCHANGED response

\* get_naver_news: status 200
GetNaverNewsOk ==
    /\ pc = "fetch"
    /\ \E its \in ItemLists : items' = its
    /\ fetchOk' = TRUE
    /\ pc' = "prefilter"
    /\ UNCHANGED <<storeVars, new_to_analyze, classifyVars, postVars>>

\* mutant of GetNaverNewsFail: the exception of requests.get is not caught
GetNaverNewsFailRaises ==
    /\ pc = "fetch"
    /\ items' = <<>>
    /\ fetchOk' = FALSE
    /\ pc' = "crashed"
    /\ error' = [type |-> "ConnectionError", line |-> 58]
    /\ UNCHANGED <<db, txn, connOpen, today, runs, dbAtOpen, prevKept, response,
                   new_to_analyze, classifyVars, postVars>>

\* get_naver_news: another status, or requests.get raises
GetNaverNewsFail ==
    /\ pc = "fetch"
    /\ items' = <<>>
    /\ fetchOk' = FALSE
    /\ pc' = "prefilter"
    /\ UNCHANGED <<storeVars, new_to_analyze, classifyVars, postVars>>

\* conn.close(), line 228, and the end of main()
Close ==
    /\ connOpen' = FALSE
    /\ pc' = "done"

\* main() lines 144-176: connect, the first loop, the test of new_to_analyze;
\* with nothing to analyse, lines 226-228
PreFilterStep ==
    /\ pc = "prefilter"
    /\ \E survivors \in {PreFilter(items, Visible)} :
        /\ new_to_analyze' = survivors
        /\ IF survivors # <<>>
           THEN connOpen' = TRUE /\ pc' = "classify"
           ELSE Close
    /\ UNCHANGED <<db, txn, today, runs, histVars, fetchOk, items, classifyVars, postVars>>

\* an exception leaves main(): the process ends, the open transaction is lost
Crash(type, line) ==
    /\ pc' = "crashed"
    /\ error' = Raised(type, line)
    /\ txn' = <<>>

RECURSIVE LoopFrom(_, _, _, _, _)
\* the loop of lines 186-209 from the k-th article on, `ins` being what the
\* passes before it inserted: the entries inserted, the position the loop
\* stopped at and the exception that stopped it
LoopFrom(k, ins, m, store, today_str) ==
    IF k > Len(new_to_analyze) THEN [ins |-> ins, idx |-> k, error |-> NoError]
    ELSE LET news == new_to_analyze[k]
             seen == store \cup RowsOf(ins)
         IN IF ~IsKept(m, news.id)
            THEN LoopFrom(k + 1, ins, m, store, today_str)
            ELSE IF DisplayRaises(SentimentOf(m[news.id]))
            THEN [ins |-> ins, idx |-> k, error |-> Raised("TypeError", 200)]
            ELSE IF InsertRaises(seen, news.title)
            THEN [ins |-> ins, idx |-> k, error |-> Raised("IntegrityError", 206)]
            ELSE LoopFrom(k + 1,
                    Append(ins, [id |-> news.id,
                                 row |-> RecordOf(news, m[news.id], today_str),
                                 block |-> BlockOf(news, m[news.id])]),
                    m, store, today_str)

RECURSIVE DurableAfter(_, _)
\* the file after the INSERTs of `rows`
DurableAfter(store, rows) ==
    IF rows = <<>> THEN store
    ELSE DurableAfter(InsertDurable(store, Head(rows)), Tail(rows))

\* lines 183-209 with result_map = m
PostFilter(m) ==
    \E end \in {LoopFrom(1, <<>>, m, Visible, today)} :
        /\ inserted' = [k \in DOMAIN end.ins |->
                            [id |-> end.ins[k].id, row |-> end.ins[k].row]]
        /\ final_messages' = [k \in DOMAIN end.ins |-> end.ins[k].block]
        /\ idx' = end.idx
        /\ db' = DurableAfter(db, [k \in DOMAIN end.ins |-> end.ins[k].row])
        /\ IF end.error = NoError
           THEN /\ txn' = txn \o [k \in DOMAIN end.ins |-> end.ins[k].row]
                /\ pc' = "commit"
                /\ UNCHANGED error
           ELSE Crash(end.error.type, end.error.line)

\* analyze_batch_filtered returns `results` by the return statement of `line`;
\* main() goes on to line 181 and through the loop of lines 186-209
Return(line, results) ==
    /\ returnLine' = line
    /\ IF MapRaises(results)
       THEN /\ Crash("TypeError", 181)
            /\ UNCHANGED <<result_map, db, idx, final_messages, inserted>>
       ELSE \E m \in {ResultMapOf(results)} :
                /\ result_map' = m
                /\ PostFilter(m)

\* mutant of Exhausted: one attempt more
ExhaustedLate(n) == ~(n < MaxAttempts + 1)

\* range(3) is exhausted after n attempts
Exhausted(n) == ~(n < MaxAttempts)

Invoke(outcome) ==
    /\ pc = "classify"
    /\ ~Exhausted(attempt)
    /\ attempt' = attempt + 1
    /\ calls' = Append(calls, [at |-> clock, payload |-> Payload(new_to_analyze)])
    /\ outcomes' = Append(outcomes, outcome)

\* the attempt is followed by another
Continue ==
    /\ pc' = "classify"
    /\ UNCHANGED <<returnLine, result_map, db, txn, error, idx, final_messages, inserted>>

otherVars == <<connOpen, today, runs, dbAtOpen, prevKept, response, fetchVars, outbox>>

\* mutant of AttemptClientError: no sleep once the attempts are used up
AttemptClientErrorNoLastSleep ==
    \E code \in ClientErrorCodes :
        IF code = RateLimitCode
        THEN /\ Invoke("rate_limit")
             /\ IF Exhausted(attempt + 1)
                THEN clock' = clock /\ Return(136, NoResults)
                ELSE clock' = clock + Cooldown /\ Continue
             /\ UNCHANGED otherVars
        ELSE /\ Invoke("client_error")
             /\ Return(136, NoResults)
             /\ UNCHANGED <<otherVars, clock>>

\* generate_content raises ClientError
AttemptClientError ==
    \E code \in ClientErrorCodes :
        IF code = RateLimitCode
        THEN /\ Invoke("rate_limit")
             /\ clock' = clock + Cooldown
             /\ IF Exhausted(attempt + 1) THEN Return(136, NoResults) ELSE Continue
             /\ UNCHANGED otherVars
        ELSE /\ Invoke("client_error")
             /\ Return(136, NoResults)
             /\ UNCHANGED <<otherVars, clock>>

\* mutant of AttemptBadJson: the loop goes on after the parse failure
AttemptBadJsonRetry ==
    /\ Invoke("bad_json")
    /\ IF Exhausted(attempt + 1) THEN Return(136, NoResults) ELSE Continue
    /\ UNCHANGED <<otherVars, clock>>

\* json.loads raises JSONDecodeError
AttemptBadJson ==
    /\ Invoke("bad_json")
    /\ Return(136, NoResults)
    /\ UNCHANGED <<otherVars, clock>>

\* any other exception of the request or of json.loads
AttemptOtherError ==
    /\ Invoke("other_error")
    /\ Return(136, NoResults)
    /\ UNCHANGED <<otherVars, clock>>

\* the response parses: line 119 returns the parsed value
AttemptParsed ==
    /\ Invoke("parsed")
    /\ \E v \in ParsedValues : Return(119, v)
    /\ UNCHANGED <<otherVars, clock>>

\* mutant of Commit: the commit is left for after the notification
CommitSkipped ==
    /\ pc = "commit"
    /\ pc' = "notify"
    /\ UNCHANGED <<db, txn, connOpen, today, runs, histVars, fetchVars, classifyVars,
                   postVars>>

\* conn.commit(), line 211
Commit ==
    /\ pc = "commit"
    /\ db' = db \cup SeqToSet(txn)
    /\ txn' = <<>>
    /\ pc' = "notify"
    /\ UNCHANGED <<connOpen, today, runs, histVars, fetchVars, classifyVars, postVars>>

\* mutant of NotifySent: one request per block, the first one here
NotifySentFirstBlock ==
    /\ pc = "notify"
    /\ final_messages # <<>>
    /\ outbox' = Append(outbox, [blocks |-> <<Head(final_messages)>>, delivered |-> TRUE])
    /\ Close
    /\ UNCHANGED <<db, txn, today, runs, histVars, fetchVars, classifyVars, idx,
                   final_messages, inserted>>

\* requests.post returns (its status is not read); lines 219-228
NotifySent ==
    /\ pc = "notify"
    /\ final_messages # <<>>
    /\ outbox' = Append(outbox, [blocks |-> final_messages, delivered |-> TRUE])
    /\ Close
    /\ UNCHANGED <<db, txn, today, runs, histVars, fetchVars, classifyVars, idx,
                   final_messages, inserted>>

\* requests.post raises; the exception is caught; lines 220-228
NotifyFailed ==
    /\ pc = "notify"
    /\ final_messages # <<>>
    /\ outbox' = Append(outbox, [blocks |-> final_messages, delivered |-> FALSE])
    /\ Close
    /\ UNCHANGED <<db, txn, today, runs, histVars, fetchVars, classifyVars, idx,
                   final_messages, inserted>>

\* nothing to send; lines 222-228
NotifyNothing ==
    /\ pc = "notify"
    /\ final_messages = <<>>
    /\ Close
    /\ UNCHANGED <<db, txn, today, runs, histVars, fetchVars, classifyVars, postVars>>

Next ==
    \/ InitDb
    \/ GetNaverNewsOk
    \/ GetNaverNewsFail
    \/ PreFilterStep
    \/ AttemptClientError
    \/ AttemptBadJson
    \/ AttemptOtherError
    \/ AttemptParsed
    \/ Commit
    \/ NotifySent
    \/ NotifyFailed
    \/ NotifyNothing

Spec == Init /\ [][Next]_vars

\* ------------------------------------------- lines 178-221 on a given response
\* A first run that has come to line 176 with articles to analyse, and the
\* response its classifier will give.
InitVerdicts ==
    /\ pc = "classify"
    /\ db = {}
    /\ txn = <<>>
    /\ connOpen = TRUE
    /\ today = 0
    /\ runs = 1
    /\ fetchOk = TRUE
    /\ items \in ItemLists
    /\ new_to_analyze = PreFilter(items, {})
    /\ new_to_analyze # <<>>
    /\ attempt = 0
    /\ clock = 0
    /\ calls = <<>>
    /\ outcomes = <<>>
    /\ returnLine = 0
    /\ result_map = EmptyMap
    /\ idx = 1
    /\ final_messages = <<>>
    /\ inserted = <<>>
    /\ dbAtOpen = {}
    /\ outbox = <<>>
    /\ error = NoError
    /\ prevKept = {}
    /\ response \in ParsedValues

\* the first attempt is answered with the response: line 119 returns it
AttemptResponse ==
    /\ Invoke("parsed")
    /\ Return(119, response)
    /\ UNCHANGED <<otherVars, clock>>

NextVerdicts ==
    \/ AttemptResponse
    \/ Commit
    \/ NotifySent
    \/ NotifyFailed
    \/ NotifyNothing

SpecVerdicts == InitVerdicts /\ [][NextVerdicts]_vars

\* ----------------------------------------------------------------- claims
\* analyze_batch_filtered was entered and has returned in this run
Returned == returnLine # 0

CleanTitle(k) == CleanText(items[k].title)
BlockTitles(blocks) == { blocks[k].title : k \in DOMAIN blocks }
SentTitles == UNION { BlockTitles(outbox[k].blocks) : k \in DOMAIN outbox }
RateLimited == { k \in DOMAIN outcomes : outcomes[k] = "rate_limit" }
ErrorOutcomes == {"client_error", "bad_json", "other_error"}
Fields == {"title", "link", "description", "pubDate", "summary", "sentiment", "created_at"}

\* C1: every row a run inserts belongs to a fetched article whose cleaned title
\* was not in the store when the run opened it and holds no denylisted
\* keyword, and whose id has a verdict of that id and of status KEEP; the
\* store gains no other row.
InvC1 ==
    /\ \A k \in DOMAIN inserted :
        LET e == inserted[k]
        IN /\ e.id + 1 \in DOMAIN items
           /\ e.row.title = CleanTitle(e.id + 1)
           /\ ~TitleExists(dbAtOpen, e.row.title)
           /\ ~Denylisted(e.row.title)
           /\ e.id \in DOMAIN result_map
           /\ result_map[e.id].id = e.id
           /\ result_map[e.id].status = "KEEP"
    /\ db \ dbAtOpen \subseteq RowsOf(inserted)
    /\ \A r \in db : ~Denylisted(r.title)

\* a later run has stored an article of a response whose other article the
\* store already held
WitC1 ==
    /\ pc = "done"
    /\ runs >= 2
    /\ inserted # <<>>
    /\ RowsOf(inserted) \subseteq db
    /\ Len(new_to_analyze) < Len(items)
    /\ \E k \in DOMAIN items : TitleExists(dbAtOpen, CleanTitle(k))

\* C2 (as claimed): no INSERT of a title the store holds raises.
CexC2 == ~(pc = "crashed" /\ error = Raised("IntegrityError", 206))

\* C3 (as claimed): no outcome of a collaborator makes an exception leave main().
CexC3 == pc # "crashed"

\* C4 (as claimed): a run with articles to analyse invokes generate_content
\* exactly once.
CexC4 == (Returned /\ new_to_analyze # <<>>) => Len(calls) = 1

\* C4 (amended): a run with N > 0 articles to analyse invokes generate_content
\* once, and once more after each rate-limit response, three times at most;
\* every invocation carries all N articles; a run with none never invokes it.
InvC4 ==
    /\ \A k \in DOMAIN calls :
        /\ Len(calls[k].payload) = Len(new_to_analyze)
        /\ \A j \in DOMAIN new_to_analyze :
            /\ calls[k].payload[j].id = new_to_analyze[j].id
            /\ calls[k].payload[j].title = new_to_analyze[j].title
            /\ calls[k].payload[j].description = new_to_analyze[j].desc
    /\ new_to_analyze = <<>> => calls = <<>>
    /\ (Returned /\ new_to_analyze # <<>>) =>
        /\ Len(calls) \in 1..3
        /\ Len(calls) = IF Cardinality(RateLimited) = 3 THEN 3
                        ELSE Cardinality(RateLimited) + 1

\* one rate-limit response, then one request more, for several articles
WitC4 ==
    /\ pc = "done"
    /\ Len(new_to_analyze) >= 2
    /\ Len(calls) = 2
    /\ outcomes[1] = "rate_limit"

\* C5: when every attempt is answered with a rate-limit error, consecutive
\* attempts are one cooldown apart, and analyze_batch_filtered returns after
\* exactly 3 attempts with an empty verdict list and no exception.
InvC5 ==
    (outcomes # <<>> /\ RateLimited = DOMAIN outcomes) =>
        /\ \A k \in DOMAIN calls :
            k > 1 => calls[k].at - calls[k - 1].at = 60
        /\ pc # "classify" =>
            /\ Len(calls) = 3
            /\ returnLine = 136
            /\ result_map = EmptyMap
            /\ error = NoError
            /\ pc # "crashed"

\* three rate-limit responses and the run went on to its end
WitC5 ==
    /\ pc = "done"
    /\ outcomes = <<"rate_limit", "rate_limit", "rate_limit">>
    /\ Len(calls) = 3

\* C6: no request to the classifier carries a title that holds a denylisted
\* keyword, and the classifier is invoked only in a run that fetched an
\* article which is neither denylisted nor already stored.
InvC6 ==
    /\ \A k \in DOMAIN calls :
        \A j \in DOMAIN calls[k].payload : ~Denylisted(calls[k].payload[j].title)
    /\ (pc = "classify" \/ calls # <<>>) =>
        \E k \in DOMAIN items :
            \E title \in {CleanTitle(k)} :
                ~TitleExists(dbAtOpen, title) /\ ~Denylisted(title)

\* a denylisted title that is not in the store was fetched with an article
\* that went to the classifier
WitC6 ==
    /\ pc = "done"
    /\ calls # <<>>
    /\ \E k \in DOMAIN items :
        Denylisted(CleanTitle(k)) /\ ~TitleExists(dbAtOpen, CleanTitle(k))

\* C7: a title the previous run committed, whose row is not past the
\* horizon, is not inserted again by this run, is in no message of this run,
\* and has one row at most.
InvC7 ==
    \A p \in prevKept :
        today - p.created_at <= 3 =>
            /\ p.title \notin TitlesOf(RowsOf(inserted))
            /\ p.title \notin BlockTitles(final_messages)
            /\ p.title \notin SentTitles
            /\ Cardinality({ r \in db : r.title = p.title }) <= 1

\* the next run fetched the title again on a later day within the horizon and
\* sent a message about another article
WitC7 ==
    /\ pc = "done"
    /\ runs >= 2
    /\ outbox # <<>>
    /\ \E p \in prevKept :
        /\ today > p.created_at
        /\ today - p.created_at <= 3
        /\ \E k \in DOMAIN items : CleanTitle(k) = p.title

\* C8: result_map holds under an id a verdict of that id only; every row
\* inserted carries the summary and sentiment of the verdict of its own
\* article's id; an article whose id has no verdict is passed over: it is
\* neither inserted nor put in the message, and it raises nothing.
InvC8 ==
    /\ \A id \in DOMAIN result_map : result_map[id].id = id
    /\ \A k \in DOMAIN inserted :
        LET e == inserted[k]
        IN /\ e.id \in DOMAIN result_map
           /\ \E j \in DOMAIN new_to_analyze :
                /\ new_to_analyze[j].id = e.id
                /\ new_to_analyze[j].title = e.row.title
                /\ j < idx
           /\ e.row.summary = SummaryOf(result_map[e.id])
           /\ e.row.sentiment = SentimentDisplay(SentimentOf(result_map[e.id]))
    /\ Len(final_messages) = Len(inserted)
    /\ \A k \in DOMAIN final_messages :
        /\ final_messages[k].title = inserted[k].row.title
        /\ final_messages[k].summary = inserted[k].row.summary
    /\ pc \in {"commit", "notify", "done"} =>
        \A j \in DOMAIN new_to_analyze :
            new_to_analyze[j].id \notin DOMAIN result_map =>
                \A k \in DOMAIN inserted : inserted[k].id # new_to_analyze[j].id
    /\ error.line \in {200, 206} => new_to_analyze[idx].id \in DOMAIN result_map

\* of two articles only the second had a verdict, and it was stored
WitC8 ==
    /\ pc = "done"
    /\ Len(new_to_analyze) = 2
    /\ DOMAIN result_map = {new_to_analyze[2].id}
    /\ Len(inserted) = 1
    /\ inserted[1].id = new_to_analyze[2].id

\* C9 (as claimed): when a run is interrupted, the rows it has inserted are in
\* the durable store.
CexC9 == pc = "crashed" => RowsOf(inserted) \subseteq db

\* C9 (amended): the inserts of a run are one transaction, committed once
\* after the loop: until that commit, and when the run is interrupted before
\* it, the durable store is as prune left it and holds none of the run's
\* rows; after it the store holds them all; every row has all its fields.
InvC9 ==
    /\ pc \in {"fetch", "prefilter", "classify", "commit", "crashed"} =>
        db = dbAtOpen
    /\ pc \in {"notify", "done"} => db = dbAtOpen \cup RowsOf(inserted)
    /\ \A r \in db : DOMAIN r = Fields
    /\ \A k \in DOMAIN inserted : DOMAIN inserted[k].row = Fields

\* the run was interrupted after an insert
WitC9 ==
    /\ pc = "crashed"
    /\ inserted # <<>>
    /\ dbAtOpen # {}

\* C10: an attempt that ends in an error other than rate limit, or in output
\* that does not parse, is the last attempt; the verdict list is empty, and the
\* run inserts nothing, sends nothing and raises nothing.
InvC10 ==
    \A n \in DOMAIN outcomes :
        outcomes[n] \in ErrorOutcomes =>
            /\ n = Len(outcomes)
            /\ pc # "classify"
            /\ returnLine = 136
            /\ result_map = EmptyMap
            /\ inserted = <<>>
            /\ txn = <<>>
            /\ db = dbAtOpen
            /\ final_messages = <<>>
            /\ outbox = <<>>
            /\ pc # "crashed"

\* a parse failure after a rate-limit response, and the run ended normally
WitC10 ==
    /\ pc = "done"
    /\ Len(outcomes) = 2
    /\ outcomes[2] = "bad_json"
    /\ Len(new_to_analyze) >= 2

\* C11: the rows a run keeps are committed before the notification request is
\* attempted, and a request that fails leaves them in the store and raises
\* nothing out of main().
InvC11 ==
    /\ pc = "notify" => (txn = <<>> /\ RowsOf(inserted) \subseteq db)
    /\ \A k \in DOMAIN outbox :
        /\ txn = <<>>
        /\ RowsOf(inserted) \subseteq db
        /\ ~outbox[k].delivered => (pc = "done" /\ error = NoError)

\* the request failed after two rows were committed
WitC11 ==
    /\ pc = "done"
    /\ Len(outbox) = 1
    /\ ~outbox[1].delivered
    /\ Len(inserted) = 2
    /\ RowsOf(inserted) \subseteq db

\* C12: a run sends one notification request at most, only when an article
\* with a KEEP verdict was kept, and the request carries the blocks of all
\* the articles kept.
InvC12 ==
    /\ Len(outbox) <= 1
    /\ \A k \in DOMAIN outbox :
        /\ inserted # <<>>
        /\ \A j \in DOMAIN inserted :
            /\ inserted[j].id \in DOMAIN result_map
            /\ result_map[inserted[j].id].status = "KEEP"
        /\ outbox[k].blocks = final_messages
        /\ Len(outbox[k].blocks) = Len(inserted)
    /\ (pc = "notify" /\ inserted # <<>>) => Len(final_messages) = Len(inserted)

\* one request carried the blocks of two articles
WitC12 ==
    /\ pc = "done"
    /\ Len(outbox) = 1
    /\ outbox[1].delivered
    /\ Len(outbox[1].blocks) = 2

\* C13: a run that fetched no article which is both new to the store and free
\* of denylisted keywords sends no request to the classifier and none to the
\* notifier, raises nothing, and leaves the store as prune left it.
InvC13 ==
    (calls # <<>> \/ outbox # <<>> \/ db # dbAtOpen \/ txn # <<>> \/ pc = "crashed") =>
        \E k \in DOMAIN items :
            \E title \in {CleanTitle(k)} :
                ~TitleExists(dbAtOpen, title) /\ ~Denylisted(title)

\* a later run ended having fetched a stored article and a denylisted one
WitC13 ==
    /\ pc = "done"
    /\ runs >= 2
    /\ Len(items) = 2
    /\ new_to_analyze = <<>>
    /\ calls = <<>>
    /\ db # {}
    /\ \E k \in DOMAIN items : TitleExists(dbAtOpen, CleanTitle(k))
    /\ \E k \in DOMAIN items : Denylisted(CleanTitle(k))

\* C14: a step of init_db deletes exactly the rows created earlier than 3 days
\* before the day of the run and leaves every other row as it was: a row 4
\* days old is gone, a row 2 days old remains; pruning the result again on the
\* same day changes nothing; an empty store stays empty and nothing is raised.
InvC14 ==
    [][(pc # "fetch" /\ pc' = "fetch") =>
        /\ db' \subseteq db
        /\ \A r \in db : (r \in db') <=> ~(r.created_at < today' - 3)
        /\ \A r \in db : today' - r.created_at = 4 => r \notin db'
        /\ \A r \in db : today' - r.created_at = 2 => r \in db'
        /\ Prune(db', today') = db'
        /\ db = {} => db' = {}
        /\ error' = NoError]_vars

\* init_db has deleted a row that the previous run committed 4 days before
WitC14 ==
    /\ pc = "fetch"
    /\ \E p \in prevKept : today - p.created_at = 4 /\ p \notin db

\* C15: from init_db on, the store of a run holds no row older than the
\* horizon, so the pre-filter never sees one: every fetched article whose
\* title the previous run stored in a row now past the horizon goes on to the
\* classifier as a new one.
InvC15 ==
    /\ \A r \in db : ~(r.created_at < today - 3)
    /\ pc \in {"fetch", "prefilter"} => db = dbAtOpen
    /\ pc \notin {"idle", "fetch", "prefilter"} =>
        \A p \in prevKept :
            today - p.created_at > 3 =>
                \A k \in DOMAIN items :
                    CleanTitle(k) = p.title =>
                        \E j \in DOMAIN new_to_analyze :
                            /\ new_to_analyze[j].id = k - 1
                            /\ new_to_analyze[j].title = p.title

\* a title whose row had passed the horizon was fetched and stored again
WitC15 ==
    /\ pc = "done"
    /\ \E p \in prevKept :
        /\ today - p.created_at > 3
        /\ p.title \in TitlesOf(RowsOf(inserted))
        /\ p \notin db

\* C16 (as claimed): however a run ends, by the end of main() or by an
\* exception that leaves it, the connection the run opened has been closed.
CexC16 == pc \in {"done", "crashed"} => ~connOpen

\* C17: when the search request fails or is answered with another status
\* than 200, get_naver_news returns the empty list and raises nothing, and the
\* run goes on as one with no news: nothing analysed, stored or sent.
InvC17 ==
    (pc \notin {"idle", "fetch"} /\ ~fetchOk) =>
        /\ items = <<>>
        /\ new_to_analyze = <<>>
        /\ calls = <<>>
        /\ inserted = <<>>
        /\ outbox = <<>>
        /\ db = dbAtOpen
        /\ error = NoError
        /\ pc \in {"prefilter", "done"}

\* a later run whose search failed ended normally, the store keeping its rows
WitC17 ==
    /\ pc = "done"
    /\ ~fetchOk
    /\ runs >= 2
    /\ ~connOpen
    /\ db # {}

\* C18: in a run that reaches the notification, the titles of the message
\* blocks are the titles of the rows the run inserted, in the same order,
\* which is the order of the search response; the rows are in the store, and
\* a run that inserted a row sends a message.
InvC18 ==
    pc \in {"notify", "done"} =>
        /\ [k \in DOMAIN final_messages |-> final_messages[k].title]
              = [k \in DOMAIN inserted |-> inserted[k].row.title]
        /\ \A k \in DOMAIN outbox :
              [j \in DOMAIN outbox[k].blocks |-> outbox[k].blocks[j].title]
                  = [j \in DOMAIN inserted |-> inserted[j].row.title]
        /\ \A i, j \in DOMAIN inserted :
              i < j =>
                  /\ inserted[i].id < inserted[j].id
                  /\ inserted[i].row.title # inserted[j].row.title
        /\ \A k \in DOMAIN inserted :
              /\ inserted[k].row \in db
              /\ inserted[k].row.title = CleanTitle(inserted[k].id + 1)
        /\ (pc = "done" /\ inserted # <<>>) => Len(outbox) = 1

\* a message about two articles, the second fetched after the first
WitC18 ==
    /\ pc = "done"
    /\ Len(outbox) = 1
    /\ Len(inserted) = 2
    /\ Len(outbox[1].blocks) = 2
    /\ outbox[1].blocks[1].title # outbox[1].blocks[2].title

\* C19: the time analyze_batch_filtered has slept is one cooldown of 60 for
\* each rate-limit response received so far, the third included, and nothing
\* for any other outcome: every request is sent one cooldown after each
\* rate-limit response before it.
InvC19 ==
    /\ Len(outcomes) = Len(calls)
    /\ clock = 60 * Cardinality(RateLimited)
    /\ \A k \in DOMAIN calls :
        calls[k].at = 60 * Cardinality({ j \in RateLimited : j < k })

\* three rate-limit responses, three cooldowns
WitC19 ==
    /\ pc = "done"
    /\ Cardinality(RateLimited) = 3
    /\ clock = 180

\* positions of the response's entries that have both keys and the id
EntriesOf(id) ==
    { k \in DOMAIN response.elems :
        /\ response.elems[k].id # NoId
        /\ response.elems[k].status # AbsentKey
        /\ response.elems[k].id = id }

\* the last of them in response order
LastEntryOf(id) ==
    response.elems[CHOOSE k \in EntriesOf(id) : \A j \in EntriesOf(id) : j <= k]

\* C20: of the entries of the response that have both id and status and the
\* id of an article, the last one alone decides it: result_map holds that
\* entry, the article is inserted exactly if its status is KEEP, with its
\* summary and sentiment; an article with no such entry has no verdict and is
\* not inserted, whatever entries lack id or status.
InvC20 ==
    (Returned /\ response.kind = "list") =>
        \A j \in DOMAIN new_to_analyze :
            LET id == new_to_analyze[j].id
                stored == { k \in DOMAIN inserted : inserted[k].id = id }
            IN IF EntriesOf(id) = {}
               THEN id \notin DOMAIN result_map /\ stored = {}
               ELSE /\ id \in DOMAIN result_map
                    /\ result_map[id] = LastEntryOf(id)
                    /\ j < idx => (stored # {} <=> LastEntryOf(id).status = "KEEP")
                    /\ j > idx => stored = {}
                    /\ (pc = "crashed" /\ j = idx) => LastEntryOf(id).status = "KEEP"
                    /\ \A k \in stored :
                        /\ inserted[k].row.summary = SummaryOf(LastEntryOf(id))
                        /\ inserted[k].row.sentiment =
                              SentimentDisplay(SentimentOf(LastEntryOf(id)))

\* a PASS entry followed by a KEEP entry of the same id: the article is stored
WitC20 ==
    /\ pc = "done"
    /\ response.kind = "list"
    /\ \E a, b \in DOMAIN response.elems :
        /\ a < b
        /\ response.elems[a].id = response.elems[b].id
        /\ response.elems[a].status = "PASS"
        /\ response.elems[b].status = "KEEP"
        /\ \E k \in DOMAIN inserted : inserted[k].id = response.elems[b].id

====
